---- MODULE Spec2Model ----
(***************************************************************************)
(* The ABC tune loader: parse_abc_file / parse_single_tune                 *)
(* (abc_parser.py), insert_tune / insert_tunes_batch (database.py),        *)
(* find_abc_files (file_loader.py) and load_all_tunes (main.py).           *)
(*                                                                         *)
(* A text is a sequence of one-character strings.  Four specifications     *)
(* share the variables:                                                    *)
(*   SpecParse  parse_abc_file run line by line on one file,               *)
(*   SpecBatch  insert_tunes_batch called on one list of records,          *)
(*   SpecLocate find_abc_files run on one directory tree,                  *)
(*   Spec       load_all_tunes over a corpus (SpecFair adds the fairness   *)
(*              of a sequential program that keeps running).               *)
(***************************************************************************)
EXTENDS Integers, Sequences, FiniteSets, TLC

VARIABLES
    pc,              \* position of the running function
    \* parse_abc_file / parse_single_tune
    readable,        \* whether open()/read() of the file succeeds
    content,         \* the text of the file
    tune_sections,   \* result of re.split
    si,              \* index of the section of the for loop
    tunes,           \* list of records built so far
    tune_dict,       \* record being filled by parse_single_tune
    lines,           \* tune_text.split('\n')
    li,              \* index of the line of the for loop
    \* insert_tunes_batch / insert_tune
    btunes,          \* argument tunes
    book_number,     \* argument book_number
    file_path,       \* argument file_path
    ti,              \* index of the record of the for loop
    count,           \* local count
    attempts,        \* the insert_tune calls of this batch and their results, in order
    db,              \* rows committed to table tunes, in commit order
    pending,         \* rows executed in the open transaction, not committed
    \* load_all_tunes
    root_exists,     \* whether os.listdir('abc_books') succeeds
    corpus,          \* the qualifying files on disk, in listing order
    abc_files,       \* list returned by find_abc_files
    fi,              \* index of the file of the for loop
    total_tunes,
    files_processed,
    log,             \* the per-file lines printed by the loop
    history,         \* per handled file, the insert_tune results of its batch
    conn,            \* "none", "open" or "closed"
    \* find_abc_files
    fs,              \* os.listdir(root_dir): the entries of the root, in order
    root_listable,   \* whether os.listdir(root_dir) succeeds
    oi,              \* index of the folder of the outer for loop
    ii,              \* index of the file of the inner for loop
    found            \* the local list abc_files of find_abc_files

parseVars == <<readable, content, tune_sections, si, tunes, tune_dict, lines, li>>
batchVars == <<btunes, book_number, file_path, ti, count, attempts, db, pending>>
driverVars == <<root_exists, corpus, abc_files, fi, total_tunes, files_processed,
                log, history, conn>>
locateVars == <<fs, root_listable, oi, ii, found>>
vars == <<pc, parseVars, batchVars, driverVars, locateVars>>

----------------------------------------------------------------------------
(* Bounds *)

MaxLines == 3      \* lines of the file given to parse_abc_file
MaxBatch == 6      \* records of the list given to insert_tunes_batch
MaxFiles == 2      \* files of the corpus

----------------------------------------------------------------------------
(* Text helpers: Python str methods and re.split *)

NL == "\n"

Whitespace == {" ", NL, "\t", "\r"}

RECURSIVE LStrip(_)
LStrip(s) ==
    IF s # <<>> /\ Head(s) \in Whitespace THEN LStrip(Tail(s)) ELSE s

RECURSIVE RStrip(_)
RStrip(s) ==
    IF s # <<>> /\ s[Len(s)] \in Whitespace
    THEN RStrip(SubSeq(s, 1, Len(s) - 1))
    ELSE s

\* str.strip()
Strip(s) == RStrip(LStrip(s))

\* str.startswith(p)
StartsWith(s, p) == Len(s) >= Len(p) /\ SubSeq(s, 1, Len(p)) = p

\* line[2:]
From2(s) == SubSeq(s, 3, Len(s))

RECURSIVE SplitAcc(_, _, _)
SplitAcc(s, i, cur) ==
    IF i > Len(s) THEN <<cur>>
    ELSE IF s[i] = NL THEN <<cur>> \o SplitAcc(s, i + 1, <<>>)
    ELSE SplitAcc(s, i + 1, Append(cur, s[i]))

\* tune_text.split('\n')
SplitLines(s) == SplitAcc(s, 1, <<>>)

\* the position i holds a newline directly followed by X:  (\n(?=X:))
MarkerAt(s, i) ==
    /\ s[i] = NL
    /\ i + 2 <= Len(s)
    /\ s[i + 1] = "X"
    /\ s[i + 2] = ":"

RECURSIVE ReSplitAcc(_, _, _)
ReSplitAcc(s, i, cur) ==
    IF i > Len(s) THEN <<cur>>
    ELSE IF MarkerAt(s, i) THEN <<cur>> \o ReSplitAcc(s, i + 1, <<>>)
    ELSE ReSplitAcc(s, i + 1, Append(cur, s[i]))

RECURSIVE ReSplitConsumingAcc(_, _, _)
ReSplitConsumingAcc(s, i, cur) ==
    IF i > Len(s) THEN <<cur>>
    ELSE IF MarkerAt(s, i) THEN <<cur>> \o ReSplitConsumingAcc(s, i + 3, <<>>)
    ELSE ReSplitConsumingAcc(s, i + 1, Append(cur, s[i]))

\* a split whose pattern consumes the marker too: re.split(r'\nX:', content)
ReSplitConsuming(s) == ReSplitConsumingAcc(s, 1, <<>>)

\* re.split(r'\n(?=X:)', content)
ReSplit(s) == ReSplitAcc(s, 1, <<>>)

RECURSIVE Concat(_)
Concat(ss) == IF ss = <<>> THEN <<>> ELSE Head(ss) \o Concat(Tail(ss))

RECURSIVE JoinNL(_)
JoinNL(ss) ==
    IF ss = <<>> THEN <<>>
    ELSE IF Len(ss) = 1 THEN Head(ss)
    ELSE Head(ss) \o <<NL>> \o JoinNL(Tail(ss))

----------------------------------------------------------------------------
(* parse_single_tune *)

PX == <<"X", ":">>
PT == <<"T", ":">>
PR == <<"R", ":">>
PM == <<"M", ":">>
PK == <<"K", ":">>

\* the dictionary parse_single_tune starts from
NewTune(tune_text) ==
    [reference_number |-> <<>>, title |-> <<>>, type |-> <<>>, meter |-> <<>>,
     key |-> <<>>, abc_notation |-> tune_text]

\* ... and not tune_dict['title']
TitleUnset(d) == d.title = <<>>

\* X: keeps the first value instead of the last
SetReferenceFirst(d, v) ==
    IF d.reference_number = <<>> THEN [d EXCEPT !.reference_number = v] ELSE d

\* tune_dict['reference_number'] = line[2:].strip()
SetReference(d, v) == [d EXCEPT !.reference_number = v]

\* R: keeps the first value instead of the last
SetTypeFirst(d, v) == IF d.type = <<>> THEN [d EXCEPT !.type = v] ELSE d

\* tune_dict['type'] = line[2:].strip()
SetType(d, v) == [d EXCEPT !.type = v]

\* an unrecognised line is taken as a title continuation
OtherLineAsTitle(d, line) == [d EXCEPT !.title = line]

\* no branch of the if/elif chain matches: nothing is assigned
OtherLine(d, line) == d

\* one iteration of the for loop over the lines, raw being the unstripped line
ParseLine(d, raw) ==
    LET line == Strip(raw)
        v == Strip(From2(line))
    IN  IF StartsWith(line, PX) THEN SetReference(d, v)
        ELSE IF StartsWith(line, PT) /\ TitleUnset(d) THEN [d EXCEPT !.title = v]
        ELSE IF StartsWith(line, PR) THEN SetType(d, v)
        ELSE IF StartsWith(line, PM) THEN [d EXCEPT !.meter = v]
        ELSE IF StartsWith(line, PK) THEN [d EXCEPT !.key = v]
        ELSE OtherLine(d, line)

RECURSIVE ParseLines(_, _)
ParseLines(d, ls) ==
    IF ls = <<>> THEN d ELSE ParseLines(ParseLine(d, Head(ls)), Tail(ls))

\* parse_single_tune as a function of its argument
ParseSingleTune(tune_text) == ParseLines(NewTune(tune_text), SplitLines(tune_text))

----------------------------------------------------------------------------
(* parse_abc_file *)

\* the strip()-less test: the section itself must start with X:
KeepSectionStrict(section) == StartsWith(section, PX)

\* not (not section.strip() or not section.strip().startswith('X:'))
KeepSection(section) ==
    Strip(section) # <<>> /\ StartsWith(Strip(section), PX)

RECURSIVE ParseSections(_)
ParseSections(secs) ==
    IF secs = <<>> THEN <<>>
    ELSE IF KeepSection(Head(secs))
         THEN <<ParseSingleTune(Head(secs))>> \o ParseSections(Tail(secs))
         ELSE ParseSections(Tail(secs))

\* parse_abc_file as a function of the file: a failure of open/read is caught
\* inside and leaves the empty list
ParseAbcFile(isReadable, text) ==
    IF isReadable THEN ParseSections(ReSplit(text)) ELSE <<>>

----------------------------------------------------------------------------
(* Inputs of SpecParse *)

\* the lines a file is made of
LineSet ==
    { <<>>,
      <<"a">>,
      <<"X", ":", "1">>,
      <<" ", "X", ":", "2">>,
      <<"T", ":">>,
      <<"T", ":", "a">>,
      <<" ", "T", ":", " ", "b", " ">>,
      <<"R", ":", "a">>,
      <<"R", ":", "b", " ">>,
      <<"M", ":", "a">>,
      <<"M", ":", " ", "b">>,
      <<"K", ":", "a">>,
      <<" ", "K", ":", "b">> }

SeqsUpTo(S, n) == UNION { [1..k -> S] : k \in 0..n }

Contents == { JoinNL(ls) : ls \in SeqsUpTo(LineSet, MaxLines) }

\* values of the variables of a function that is not running
ParseIdle ==
    /\ readable = TRUE /\ content = <<>> /\ tune_sections = <<>> /\ si = 0
    /\ tunes = <<>> /\ tune_dict = NewTune(<<>>) /\ lines = <<>> /\ li = 0

BatchIdle ==
    /\ btunes = <<>> /\ book_number = 0 /\ file_path = 0 /\ ti = 0
    /\ count = 0 /\ attempts = <<>> /\ db = <<>> /\ pending = <<>>

DriverIdle ==
    /\ root_exists = TRUE /\ corpus = <<>> /\ abc_files = <<>> /\ fi = 0
    /\ total_tunes = 0 /\ files_processed = 0 /\ log = <<>> /\ history = <<>>
    /\ conn = "none"

LocateIdle ==
    /\ fs = <<>> /\ root_listable = TRUE /\ oi = 0 /\ ii = 0 /\ found = <<>>

----------------------------------------------------------------------------
(* parse_abc_file, step by step *)

InitParse ==
    /\ pc = "p_start"
    /\ \/ readable = TRUE /\ content \in Contents
       \/ readable = FALSE /\ content = <<>>
    /\ tune_sections = <<>> /\ si = 0
    /\ tunes = <<>> /\ tune_dict = NewTune(<<>>) /\ lines = <<>> /\ li = 0
    /\ BatchIdle
    /\ DriverIdle
    /\ LocateIdle

\* open and read succeed; the content is split into sections
ReadFile ==
    /\ pc = "p_start"
    /\ readable
    /\ tune_sections' = ReSplit(content)
    /\ si' = 1
    /\ pc' = "p_loop"
    /\ UNCHANGED <<readable, content, tunes, tune_dict, lines, li>>
    /\ UNCHANGED <<batchVars, driverVars>>
    /\ UNCHANGED locateVars

\* open or read raises: except Exception prints and the empty list is returned
ReadFails ==
    /\ pc = "p_start"
    /\ ~readable
    /\ pc' = "p_return"
    /\ UNCHANGED <<parseVars, batchVars, driverVars>>
    /\ UNCHANGED locateVars

\* continue: the section is empty or does not start with X: once stripped
SkipSection ==
    /\ pc = "p_loop"
    /\ si <= Len(tune_sections)
    /\ ~KeepSection(tune_sections[si])
    /\ si' = si + 1
    /\ UNCHANGED <<pc, readable, content, tune_sections, tunes, tune_dict, lines, li>>
    /\ UNCHANGED <<batchVars, driverVars>>
    /\ UNCHANGED locateVars

\* parse_single_tune(section) is entered
StartTune ==
    /\ pc = "p_loop"
    /\ si <= Len(tune_sections)
    /\ KeepSection(tune_sections[si])
    /\ tune_dict' = NewTune(tune_sections[si])
    /\ lines' = SplitLines(tune_sections[si])
    /\ li' = 1
    /\ pc' = "p_tune"
    /\ UNCHANGED <<readable, content, tune_sections, si, tunes>>
    /\ UNCHANGED <<batchVars, driverVars>>
    /\ UNCHANGED locateVars

\* one iteration of the loop over the lines
ParseLineStep ==
    /\ pc = "p_tune"
    /\ li <= Len(lines)
    /\ tune_dict' = ParseLine(tune_dict, lines[li])
    /\ li' = li + 1
    /\ UNCHANGED <<pc, readable, content, tune_sections, si, tunes, lines>>
    /\ UNCHANGED <<batchVars, driverVars>>
    /\ UNCHANGED locateVars

\* parse_single_tune returns; the record is appended
FinishTune ==
    /\ pc = "p_tune"
    /\ li > Len(lines)
    /\ tunes' = Append(tunes, tune_dict)
    /\ si' = si + 1
    /\ pc' = "p_loop"
    /\ UNCHANGED <<readable, content, tune_sections, tune_dict, lines, li>>
    /\ UNCHANGED <<batchVars, driverVars>>
    /\ UNCHANGED locateVars

\* return tunes
ReturnTunes ==
    /\ pc = "p_loop"
    /\ si > Len(tune_sections)
    /\ pc' = "p_return"
    /\ UNCHANGED <<parseVars, batchVars, driverVars>>
    /\ UNCHANGED locateVars

NextParse ==
    \/ ReadFile
    \/ ReadFails
    \/ SkipSection
    \/ StartTune
    \/ ParseLineStep
    \/ FinishTune
    \/ ReturnTunes

SpecParse == InitParse /\ [][NextParse]_vars

\* the step-by-step run and the function agree on the result
ParseAgrees == pc = "p_return" => tunes = ParseAbcFile(readable, content)

----------------------------------------------------------------------------
(* insert_tune / insert_tunes_batch *)

\* the values tuple of the INSERT statement
Row(tune, book, path) ==
    [book_number |-> book,
     reference_number |-> tune.reference_number,
     title |-> tune.title,
     type |-> tune.type,
     meter |-> tune.meter,
     key_signature |-> tune.key,
     abc_notation |-> tune.abc_notation,
     file_path |-> path]

\* the ti-th call of insert_tune and what came of it
Attempt(i, r) == [index |-> i, result |-> r]

\* the increment is outside the if: every attempt is counted
CountOnFailureBumped(c) == c + 1

\* insert_tune returned False: count += 1 is skipped
CountOnFailure(c) == c

\* conn.commit() makes the whole open transaction durable: the rows left
\* pending by earlier calls and the row of this call
Committed(rows, waiting, row) == rows \o waiting \o <<row>>

\* insert_tune returns True: the row is executed and committed
InsertTuneOk ==
    /\ pc = "b_loop"
    /\ ti <= Len(btunes)
    /\ db' = Committed(db, pending, Row(btunes[ti], book_number, file_path))
    /\ pending' = <<>>
    /\ attempts' = Append(attempts, Attempt(ti, "ok"))
    /\ count' = count + 1
    /\ ti' = ti + 1
    /\ UNCHANGED <<pc, btunes, book_number, file_path>>
    /\ UNCHANGED <<parseVars, driverVars>>
    /\ UNCHANGED locateVars

\* the batch gives up at the first record that fails
AfterErrorAbort == "b_returned"

\* where the batch goes on after insert_tune returned False
AfterError == "b_loop"

\* conn.cursor() or cursor.execute raises a mysql.connector Error: it is caught
\* inside insert_tune, which returns False; nothing was executed
InsertTuneError ==
    /\ pc = "b_loop"
    /\ ti <= Len(btunes)
    /\ attempts' = Append(attempts, Attempt(ti, "error"))
    /\ ti' = ti + 1
    /\ count' = CountOnFailure(count)
    /\ pc' = AfterError
    /\ UNCHANGED <<btunes, book_number, file_path, db, pending>>
    /\ UNCHANGED <<parseVars, driverVars>>
    /\ UNCHANGED locateVars

\* cursor.execute succeeded and conn.commit() raises a mysql.connector Error:
\* insert_tune returns False without a rollback, the executed row stays in the
\* open transaction of the connection
InsertTuneCommitFails ==
    /\ pc = "b_loop"
    /\ ti <= Len(btunes)
    /\ pending' = Append(pending, Row(btunes[ti], book_number, file_path))
    /\ attempts' = Append(attempts, Attempt(ti, "error"))
    /\ ti' = ti + 1
    /\ count' = CountOnFailure(count)
    /\ pc' = AfterError
    /\ UNCHANGED <<btunes, book_number, file_path, db>>
    /\ UNCHANGED <<parseVars, driverVars>>
    /\ UNCHANGED locateVars

\* an exception that is not a mysql.connector Error leaves insert_tune and
\* insert_tunes_batch
InsertTuneRaises ==
    /\ pc = "b_loop"
    /\ ti <= Len(btunes)
    /\ attempts' = Append(attempts, Attempt(ti, "raise"))
    /\ pc' = "b_raised"
    /\ UNCHANGED <<btunes, book_number, file_path, ti, count, db, pending>>
    /\ UNCHANGED <<parseVars, driverVars>>
    /\ UNCHANGED locateVars

\* return count
BatchReturn ==
    /\ pc = "b_loop"
    /\ ti > Len(btunes)
    /\ pc' = "b_returned"
    /\ UNCHANGED <<parseVars, batchVars, driverVars>>
    /\ UNCHANGED locateVars

(* Inputs of SpecBatch *)

BookNumbers == {1, 2}

Digits == <<"1", "2", "3", "4", "5", "6", "7", "8", "9">>

\* the record of a chunk X:<i> followed by an optional title line
SampleTune(i, titled) ==
    ParseSingleTune(<<"X", ":", Digits[((i - 1) % 9) + 1]>>
                    \o (IF titled THEN <<NL, "T", ":", "a">> ELSE <<>>))

InitBatch ==
    /\ pc = "b_loop"
    /\ \E n \in 0..MaxBatch, titled \in BOOLEAN :
           btunes = [i \in 1..n |-> SampleTune(i, titled)]
    /\ book_number \in BookNumbers
    /\ file_path \in {1, 2}
    /\ ti = 1 /\ count = 0 /\ attempts = <<>> /\ db = <<>> /\ pending = <<>>
    /\ ParseIdle
    /\ DriverIdle
    /\ LocateIdle

NextBatch ==
    \/ InsertTuneOk
    \/ InsertTuneError
    \/ InsertTuneCommitFails
    \/ InsertTuneRaises
    \/ BatchReturn

SpecBatch == InitBatch /\ [][NextBatch]_vars

----------------------------------------------------------------------------
(* load_all_tunes *)

\* the files of the corpus: unreadable, without a tune, with one, with two
FileKinds ==
    { [readable |-> FALSE, content |-> <<>>],
      [readable |-> TRUE, content |-> <<"a">>],
      [readable |-> TRUE, content |-> <<"X", ":", "1", NL, "T", ":", "a">>],
      [readable |-> TRUE, content |-> <<"X", ":", "1", NL, "X", ":", "2", NL, "K", ":", "b">>] }

Files ==
    { [book_number |-> b, readable |-> k.readable, content |-> k.content] :
          b \in BookNumbers, k \in FileKinds }

\* the corpora: up to MaxFiles files in listing order
Corpora == SeqsUpTo(Files, MaxFiles)

\* the entries of the log
LogTunes(path, n) == [file |-> path, kind |-> "tunes", count |-> n]
LogNone(path) == [file |-> path, kind |-> "none", count |-> 0]
\* the handler reports the file as one without tunes
LogErrorAsNone(path) == [file |-> path, kind |-> "none", count |-> 0]

LogError(path) == [file |-> path, kind |-> "error", count |-> 0]

Init ==
    /\ pc = "connect"
    /\ root_exists \in BOOLEAN
    /\ corpus \in Corpora
    /\ abc_files = <<>> /\ fi = 0
    /\ total_tunes = 0 /\ files_processed = 0 /\ log = <<>> /\ history = <<>>
    /\ conn = "none"
    /\ ParseIdle
    /\ BatchIdle
    /\ LocateIdle

\* connect_to_database returns a connection
Connect ==
    /\ pc = "connect"
    /\ conn' = "open"
    /\ pc' = "schema"
    /\ UNCHANGED <<root_exists, corpus, abc_files, fi, total_tunes,
                   files_processed, log, history>>
    /\ UNCHANGED <<parseVars, batchVars>>
    /\ UNCHANGED locateVars

\* connect_to_database returns None: load_all_tunes returns
ConnectFails ==
    /\ pc = "connect"
    /\ pc' = "exit"
    /\ UNCHANGED <<parseVars, batchVars, driverVars>>
    /\ UNCHANGED locateVars

\* create_database_schema returns True
SchemaReady ==
    /\ pc = "schema"
    /\ pc' = "find"
    /\ UNCHANGED <<parseVars, batchVars, driverVars>>
    /\ UNCHANGED locateVars

\* create_database_schema returns False: the connection is closed, return
SchemaFails ==
    /\ pc = "schema"
    /\ conn' = "closed"
    /\ pc' = "exit"
    /\ UNCHANGED <<root_exists, corpus, abc_files, fi, total_tunes,
                   files_processed, log, history>>
    /\ UNCHANGED <<parseVars, batchVars>>
    /\ UNCHANGED locateVars

\* find_abc_files returns the pairs (book_number, file_path); the path of a
\* file is its position in the corpus
FindFiles ==
    /\ pc = "find"
    /\ root_exists
    /\ abc_files' = [i \in 1..Len(corpus) |-> <<corpus[i].book_number, i>>]
    /\ fi' = 1
    /\ pc' = "loop"
    /\ UNCHANGED <<root_exists, corpus, total_tunes, files_processed, log,
                   history, conn>>
    /\ UNCHANGED <<parseVars, batchVars>>
    /\ UNCHANGED locateVars

\* the failure of the listing is swallowed and the loop runs on an empty list
FindRaisesIgnored ==
    /\ pc = "find"
    /\ ~root_exists
    /\ abc_files' = <<>>
    /\ fi' = 1
    /\ pc' = "loop"
    /\ UNCHANGED <<root_exists, corpus, total_tunes, files_processed, log,
                   history, conn>>
    /\ UNCHANGED <<parseVars, batchVars, locateVars>>

\* os.listdir(root_dir) raises: the exception leaves load_all_tunes
FindRaises ==
    /\ pc = "find"
    /\ ~root_exists
    /\ pc' = "crashed"
    /\ UNCHANGED <<parseVars, batchVars, driverVars>>
    /\ UNCHANGED locateVars

\* parse_abc_file on each kind of file of the corpus
ParseTable == [k \in FileKinds |-> ParseAbcFile(k.readable, k.content)]

ParseOf(f) == ParseTable[[readable |-> f.readable, content |-> f.content]]

\* tunes = parse_abc_file(file_path) of the file of the loop
ParsedTunes == ParseOf(corpus[abc_files[fi][2]])

\* tunes is non-empty: insert_tunes_batch is called
ParseAndLoad ==
    /\ pc = "loop"
    /\ fi <= Len(abc_files)
    /\ ParsedTunes # <<>>
    /\ btunes' = ParsedTunes
    /\ book_number' = abc_files[fi][1]
    /\ file_path' = abc_files[fi][2]
    /\ ti' = 1
    /\ count' = 0
    /\ attempts' = <<>>
    /\ pc' = "b_loop"
    /\ UNCHANGED <<db, pending>>
    /\ UNCHANGED <<parseVars, driverVars>>
    /\ UNCHANGED locateVars

\* tunes is empty: "No tunes found"
ParseNoTunes ==
    /\ pc = "loop"
    /\ fi <= Len(abc_files)
    /\ ParsedTunes = <<>>
    /\ log' = Append(log, LogNone(abc_files[fi][2]))
    /\ history' = Append(history, <<>>)
    /\ fi' = fi + 1
    /\ UNCHANGED <<pc, root_exists, corpus, abc_files, total_tunes,
                   files_processed, conn>>
    /\ UNCHANGED <<parseVars, batchVars>>
    /\ UNCHANGED locateVars

\* a file counts as processed only when some record was inserted
ProcessedIncrementIfLoaded(n) == IF n >= 1 THEN 1 ELSE 0

\* files_processed += 1
ProcessedIncrement(n) == 1

\* insert_tunes_batch returned count: the totals are updated and printed
AfterBatch ==
    /\ pc = "b_returned"
    /\ total_tunes' = total_tunes + count
    /\ files_processed' = files_processed + ProcessedIncrement(count)
    /\ log' = Append(log, LogTunes(file_path, count))
    /\ history' = Append(history, attempts)
    /\ fi' = fi + 1
    /\ pc' = "loop"
    /\ UNCHANGED <<root_exists, corpus, abc_files, conn>>
    /\ UNCHANGED <<parseVars, batchVars>>
    /\ UNCHANGED locateVars

\* the exception ends the run
AfterRaiseAbort == "crashed"

\* where the loop goes on after except Exception
AfterRaise == "loop"

\* except Exception: the error is printed, the loop goes to the next file
HandleError ==
    /\ pc = "b_raised"
    /\ log' = Append(log, LogError(file_path))
    /\ history' = Append(history, attempts)
    /\ fi' = fi + 1
    /\ pc' = AfterRaise
    /\ UNCHANGED <<root_exists, corpus, abc_files, total_tunes,
                   files_processed, conn>>
    /\ UNCHANGED <<parseVars, batchVars>>
    /\ UNCHANGED locateVars

\* the loop is over: conn.close(), which drops the open transaction, and the
\* summary
Finish ==
    /\ pc = "loop"
    /\ fi > Len(abc_files)
    /\ conn' = "closed"
    /\ pending' = <<>>
    /\ pc' = "done"
    /\ UNCHANGED <<root_exists, corpus, abc_files, fi, total_tunes,
                   files_processed, log, history>>
    /\ UNCHANGED <<btunes, book_number, file_path, ti, count, attempts, db>>
    /\ UNCHANGED parseVars
    /\ UNCHANGED locateVars

Next ==
    \/ Connect
    \/ ConnectFails
    \/ SchemaReady
    \/ SchemaFails
    \/ FindFiles
    \/ FindRaises
    \/ ParseAndLoad
    \/ ParseNoTunes
    \/ InsertTuneOk
    \/ InsertTuneError
    \/ InsertTuneCommitFails
    \/ InsertTuneRaises
    \/ BatchReturn
    \/ AfterBatch
    \/ HandleError
    \/ Finish

Spec == Init /\ [][Next]_vars

\* load_all_tunes is sequential code: a step that can be taken is taken
SpecFair == Spec /\ WF_vars(Next)

TypeOK ==
    /\ pc \in {"l_start", "l_outer", "l_inner", "l_return", "l_raised",
               "p_start", "p_loop", "p_tune", "p_return", "b_loop", "b_returned",
               "b_raised", "connect", "schema", "find", "loop", "exit",
               "crashed", "done"}
    /\ ti \in 0..(Len(btunes) + 1)
    /\ count \in 0..Len(btunes)
    /\ fi \in 0..(Len(abc_files) + 1)
    /\ conn \in {"none", "open", "closed"}

----------------------------------------------------------------------------
(* find_abc_files *)

\* stands for a character such as U+00B2 (superscript two): str.isdigit() is
\* true of it and int() rejects it
Sup2 == "^"

DecimalDigits == {"0", "1", "2", "3", "4", "5", "6", "7", "8", "9"}

DigitValue ==
    ("0" :> 0) @@ ("1" :> 1) @@ ("2" :> 2) @@ ("3" :> 3) @@ ("4" :> 4) @@
    ("5" :> 5) @@ ("6" :> 6) @@ ("7" :> 7) @@ ("8" :> 8) @@ ("9" :> 9)

\* folder_name.isdigit()
IsDigit(name) ==
    name # <<>> /\ \A k \in 1..Len(name) : name[k] \in DecimalDigits \cup {Sup2}

\* int(folder_name) returns: every character is a decimal digit
IntParses(name) ==
    name # <<>> /\ \A k \in 1..Len(name) : name[k] \in DecimalDigits

\* int(folder_name) of a name that parses
RECURSIVE ToInt(_)
ToInt(name) ==
    IF name = <<>> THEN 0
    ELSE 10 * ToInt(SubSeq(name, 1, Len(name) - 1)) + DigitValue[name[Len(name)]]

\* the book number is the rank of the folder in the listing
BookNumberByPosition(name, index) == index

\* book_number = int(folder_name)
BookNumberOf(name, index) == ToInt(name)

DotAbc == <<".", "a", "b", "c">>

\* file_name.endswith('.abc')
EndsWithAbc(name) ==
    Len(name) >= Len(DotAbc)
        /\ SubSeq(name, Len(name) - Len(DotAbc) + 1, Len(name)) = DotAbc

\* os.path.join(os.path.join(root_dir, folder_name), file_name)
JoinPath(folder_name, file_name) == <<folder_name, file_name>>

(* Inputs of SpecLocate *)

MaxFolders == 2    \* entries of the root directory

\* what a folder may hold: regular files a.abc, b.txt, c.ABC and a directory
\* named d.abc
ChildListings ==
    { <<>>,
      << [name |-> <<"a", ".", "a", "b", "c">>, is_dir |-> FALSE] >>,
      << [name |-> <<"a", ".", "a", "b", "c">>, is_dir |-> FALSE],
         [name |-> <<"b", ".", "t", "x", "t">>, is_dir |-> FALSE] >>,
      << [name |-> <<"c", ".", "A", "B", "C">>, is_dir |-> FALSE],
         [name |-> <<"a", ".", "a", "b", "c">>, is_dir |-> FALSE] >>,
      << [name |-> <<"d", ".", "a", "b", "c">>, is_dir |-> TRUE] >> }

FolderNames ==
    { <<"1">>, <<"0", "1">>, <<"2">>, <<"a", "b", "c">>, <<Sup2>> }

\* the entries of the root: directories, listable or not, and a regular file
\* with a numeric name
RootEntries ==
    { [name |-> n, is_dir |-> TRUE, listable |-> TRUE, entries |-> c] :
          n \in FolderNames, c \in ChildListings }
    \cup { [name |-> n, is_dir |-> TRUE, listable |-> FALSE, entries |-> <<>>] :
               n \in FolderNames }
    \cup { [name |-> <<"3">>, is_dir |-> FALSE, listable |-> FALSE, entries |-> <<>>] }

\* the names of a directory are distinct
Listings ==
    { l \in SeqsUpTo(RootEntries, MaxFolders) :
          \A i, j \in 1..Len(l) : i # j => l[i].name # l[j].name }

InitLocate ==
    /\ pc = "l_start"
    /\ \/ root_listable = TRUE /\ fs \in Listings
       \/ root_listable = FALSE /\ fs = <<>>
    /\ oi = 0 /\ ii = 0 /\ found = <<>>
    /\ ParseIdle
    /\ BatchIdle
    /\ DriverIdle

\* os.listdir(root_dir) returns
ListRoot ==
    /\ pc = "l_start"
    /\ root_listable
    /\ oi' = 1
    /\ pc' = "l_outer"
    /\ UNCHANGED <<fs, root_listable, ii, found>>
    /\ UNCHANGED <<parseVars, batchVars, driverVars>>

\* os.listdir(root_dir) raises: the root is missing or not a directory
ListRootFails ==
    /\ pc = "l_start"
    /\ ~root_listable
    /\ pc' = "l_raised"
    /\ UNCHANGED <<parseVars, batchVars, driverVars, locateVars>>

\* the entry is not a directory or its name is not isdigit(): next entry
SkipFolder ==
    /\ pc = "l_outer"
    /\ oi <= Len(fs)
    /\ ~(fs[oi].is_dir /\ IsDigit(fs[oi].name))
    /\ oi' = oi + 1
    /\ UNCHANGED <<pc, fs, root_listable, ii, found>>
    /\ UNCHANGED <<parseVars, batchVars, driverVars>>

\* int(folder_name) raises ValueError, which leaves find_abc_files
FolderIntRaises ==
    /\ pc = "l_outer"
    /\ oi <= Len(fs)
    /\ fs[oi].is_dir /\ IsDigit(fs[oi].name)
    /\ ~IntParses(fs[oi].name)
    /\ pc' = "l_raised"
    /\ UNCHANGED <<parseVars, batchVars, driverVars, locateVars>>

\* os.listdir(folder_path) raises, which leaves find_abc_files
ListFolderFails ==
    /\ pc = "l_outer"
    /\ oi <= Len(fs)
    /\ fs[oi].is_dir /\ IsDigit(fs[oi].name)
    /\ IntParses(fs[oi].name)
    /\ ~fs[oi].listable
    /\ pc' = "l_raised"
    /\ UNCHANGED <<parseVars, batchVars, driverVars, locateVars>>

\* os.listdir(folder_path) returns: the inner loop starts
EnterFolder ==
    /\ pc = "l_outer"
    /\ oi <= Len(fs)
    /\ fs[oi].is_dir /\ IsDigit(fs[oi].name)
    /\ IntParses(fs[oi].name)
    /\ fs[oi].listable
    /\ ii' = 1
    /\ pc' = "l_inner"
    /\ UNCHANGED <<fs, root_listable, oi, found>>
    /\ UNCHANGED <<parseVars, batchVars, driverVars>>

\* the name ends with .abc: the pair is appended
TakeFile ==
    /\ pc = "l_inner"
    /\ ii <= Len(fs[oi].entries)
    /\ EndsWithAbc(fs[oi].entries[ii].name)
    /\ found' = Append(found, <<BookNumberOf(fs[oi].name, oi),
                                JoinPath(fs[oi].name, fs[oi].entries[ii].name)>>)
    /\ ii' = ii + 1
    /\ UNCHANGED <<pc, fs, root_listable, oi>>
    /\ UNCHANGED <<parseVars, batchVars, driverVars>>

\* the name does not end with .abc
SkipFile ==
    /\ pc = "l_inner"
    /\ ii <= Len(fs[oi].entries)
    /\ ~EndsWithAbc(fs[oi].entries[ii].name)
    /\ ii' = ii + 1
    /\ UNCHANGED <<pc, fs, root_listable, oi, found>>
    /\ UNCHANGED <<parseVars, batchVars, driverVars>>

\* the inner loop is over: next entry of the root
LeaveFolder ==
    /\ pc = "l_inner"
    /\ ii > Len(fs[oi].entries)
    /\ oi' = oi + 1
    /\ pc' = "l_outer"
    /\ UNCHANGED <<fs, root_listable, ii, found>>
    /\ UNCHANGED <<parseVars, batchVars, driverVars>>

\* return abc_files
ReturnFiles ==
    /\ pc = "l_outer"
    /\ oi > Len(fs)
    /\ pc' = "l_return"
    /\ UNCHANGED <<parseVars, batchVars, driverVars, locateVars>>

NextLocate ==
    \/ ListRoot
    \/ ListRootFails
    \/ SkipFolder
    \/ FolderIntRaises
    \/ ListFolderFails
    \/ EnterFolder
    \/ TakeFile
    \/ SkipFile
    \/ LeaveFolder
    \/ ReturnFiles

SpecLocate == InitLocate /\ [][NextLocate]_vars

----------------------------------------------------------------------------
(* Claims about insert_tunes_batch (SpecBatch) *)

Results(as) == [k \in 1..Len(as) |-> as[k].result]

Succeeded(as) == { k \in 1..Len(as) : as[k].result = "ok" }

\* C1: a record whose insert fails with a persistence error does not end the
\* batch: the calls of insert_tune are made in list order, the batch is still
\* looping after a failure on a record that is not the last, and when the
\* batch returns there has been one call per input record.
C1_FailureDoesNotAbortBatch ==
    /\ \A k \in 1..Len(attempts) : attempts[k].index = k
    /\ (/\ pc \in {"b_loop", "b_returned"}
        /\ attempts # <<>>
        /\ attempts[Len(attempts)].result = "error"
        /\ Len(attempts) < Len(btunes)) => (pc = "b_loop" /\ ti = Len(attempts) + 1)
    /\ pc = "b_returned" => Len(attempts) = Len(btunes)

\* a returned batch whose first record failed and whose later records were
\* still attempted
C1_Witness ==
    /\ pc = "b_returned"
    /\ Len(btunes) >= 3
    /\ attempts[1].result = "error"
    /\ attempts[2].result = "error"
    /\ attempts[3].result = "ok"
    /\ Len(attempts) = Len(btunes)

\* C2: the value returned by insert_tunes_batch lies between 0 and the number
\* of input records and is the number of records whose insert succeeded; a
\* batch of 6 records in which every third record fails returns 4.
C2_BatchCount ==
    pc = "b_returned" =>
        /\ count \in 0..Len(btunes)
        /\ count = Cardinality(Succeeded(attempts))
        /\ Results(attempts) = <<"ok", "ok", "error", "ok", "ok", "error">>
               => count = 4

\* the 6-record batch in which the third and the sixth record failed
C2_Witness ==
    /\ pc = "b_returned"
    /\ Len(btunes) = 6
    /\ Results(attempts) = <<"ok", "ok", "error", "ok", "ok", "error">>
    /\ count = 4

----------------------------------------------------------------------------
(* Claims about load_all_tunes (Spec, SpecFair) *)

PathOf(i) == abc_files[i][2]

\* what parse_abc_file returns for the i-th file of the list
TunesOf(i) == ParseOf(corpus[PathOf(i)])

\* the batch of the i-th file was left by an exception
Raised(i) == \E k \in 1..Len(history[i]) : history[i][k].result = "raise"

\* the i-th file has gone through the loop body: it has its line in the log
\* and, when it has records, the loader was called on them
Handled(i) ==
    /\ i <= Len(log)
    /\ log[i].file = PathOf(i)
    /\ TunesOf(i) # <<>> => history[i] # <<>>

\* C3: once find_abc_files has returned, the run reaches the summary with
\* every file of the list handled, whichever files failed on the way.
LoopEntered == pc = "loop" /\ fi = 1

SummaryReached == pc = "done" /\ \A i \in 1..Len(abc_files) : Handled(i)

C3_EveryFileHandled == LoopEntered ~> SummaryReached

\* the summary is reached after the first of two files raised during load
C3_Witness ==
    /\ pc = "done"
    /\ Len(abc_files) >= 2
    /\ log[1].kind = "error"
    /\ Handled(2)

\* the files with at least one committed row
FilesWithRows ==
    { i \in 1..Len(abc_files) : \E k \in 1..Len(db) : db[k].file_path = PathOf(i) }

\* C4 as stated: at the summary files_processed is the number of files with
\* at least one record persisted.
C4_ProcessedCountsLoadedFiles ==
    pc = "done" => files_processed = Cardinality(FilesWithRows)

\* the files whose record list was non-empty and whose batch returned
FilesBatched ==
    { i \in 1..Len(abc_files) : TunesOf(i) # <<>> /\ ~Raised(i) }

\* C4 amended: at the summary files_processed is the number of files for
\* which parse_abc_file returned a non-empty list and insert_tunes_batch
\* returned, whatever count it returned (0 included).
C4_ProcessedCountsBatchedFiles ==
    pc = "done" => files_processed = Cardinality(FilesBatched)

\* a run counted a file as processed although none of its records was stored
C4_Witness ==
    /\ pc = "done"
    /\ files_processed = 1
    /\ total_tunes = 0
    /\ db = <<>>

KindCount(kind) == Cardinality({ k \in 1..Len(log) : log[k].kind = kind })

\* load_all_tunes has ended after find_abc_files returned its list
RunEnded == pc \in {"done", "crashed"} /\ root_exists

\* C5: when the run has ended every discovered file has exactly one outcome,
\* at least one record, no record, or a processing failure, and the three
\* numbers add up to the number of files discovered.
C5_FilesPartition ==
    RunEnded =>
        /\ \A i \in 1..Len(abc_files) :
               /\ Cardinality({ k \in 1..Len(log) : log[k].file = PathOf(i) }) = 1
               /\ \A k \in 1..Len(log) : log[k].file = PathOf(i) =>
                      /\ log[k].kind = "tunes" <=> (TunesOf(i) # <<>> /\ ~Raised(i))
                      /\ log[k].kind = "none" <=> TunesOf(i) = <<>>
                      /\ log[k].kind = "error" <=> (TunesOf(i) # <<>> /\ Raised(i))
        /\ Len(abc_files) = KindCount("tunes") + KindCount("none") + KindCount("error")

\* a run over two files that ended with a file without a record and a file
\* whose load raised
C5_Witness ==
    /\ pc = "done"
    /\ Len(abc_files) = 2
    /\ KindCount("none") = 1
    /\ KindCount("error") = 1
    /\ Len(db) = 1

----------------------------------------------------------------------------
(* Claims about parse_abc_file and parse_single_tune (SpecParse) *)

\* the content has been read and split
SplitDone == readable /\ pc \in {"p_loop", "p_tune", "p_return"}

\* C6 as stated: the sections of the split, put one after the other with
\* nothing between them, are the original text.
C6_SplitLossless == SplitDone => Concat(tune_sections) = content

\* C6 amended: the sections of the split, joined with one newline between
\* consecutive sections, are the original text; put one after the other with
\* nothing between them they miss exactly the newline in front of each X:
\* line that starts a section after the first.
C6_SplitLosesOnlySeparators ==
    SplitDone =>
        /\ JoinNL(tune_sections) = content
        /\ Len(Concat(tune_sections)) = Len(content) - (Len(tune_sections) - 1)

\* a text split into a preamble and two chunks
C6_Witness ==
    /\ SplitDone
    /\ Len(tune_sections) = 3
    /\ tune_sections[1] = <<"a">>
    /\ Concat(tune_sections) # content

\* the positions of the text where a line starts with X: at column 0
MarkerLines(s) ==
    { i \in 1..(Len(s) - 1) :
          s[i] = "X" /\ s[i + 1] = ":" /\ (i = 1 \/ s[i - 1] = NL) }

\* C7 as stated: parse_abc_file yields one record per line that starts with
\* X: at column 0 and none for a first section that does not start with X:.
C7_OneRecordPerMarkerLine ==
    (readable /\ pc = "p_return") => Len(tunes) = Cardinality(MarkerLines(content))

\* the text starts with whitespace that does not end in a newline, then X:
IndentedFirstMarker(s) ==
    LET t == LStrip(s)
    IN  /\ t # s
        /\ StartsWith(t, PX)
        /\ s[Len(s) - Len(t)] # NL

RawTexts(ts) == [k \in 1..Len(ts) |-> ts[k].abc_notation]

IsSuffix(t, s) == Len(t) <= Len(s) /\ SubSeq(s, Len(s) - Len(t) + 1, Len(s)) = t

\* C7 amended: parse_abc_file yields, in file order, one record per line that
\* starts with X: at column 0, and one more for a first section made of
\* whitespace (not ending in a newline) followed by X:, whose raw text then
\* starts with that whitespace; a first section whose trimmed text does not
\* start with X: yields no record and is part of no record.
C7_OneRecordPerKeptSection ==
    (readable /\ pc = "p_return") =>
        /\ Len(tunes) = Cardinality(MarkerLines(content))
                          + (IF IndentedFirstMarker(content) THEN 1 ELSE 0)
        /\ tunes # <<>> => IsSuffix(JoinNL(RawTexts(tunes)), content)
        /\ \A k \in 1..Len(tunes) :
               k > 1 \/ ~IndentedFirstMarker(content)
                   => StartsWith(tunes[k].abc_notation, PX)
        /\ (tunes # <<>> /\ ~StartsWith(LStrip(content), PX))
               => JoinNL(RawTexts(tunes)) # content

\* a file whose first line is an indented X: line, followed by a record
C7_Witness ==
    /\ readable /\ pc = "p_return"
    /\ content = <<" ", "X", ":", "2", NL, "X", ":", "1">>
    /\ Len(tunes) = 2
    /\ tunes[1].reference_number = <<"2">>

\* parse_single_tune is about to return
TuneDone == pc = "p_tune" /\ li > Len(lines)

Trimmed(ls) == [k \in 1..Len(ls) |-> Strip(ls[k])]

\* the value of the first line of ls that starts with the prefix, else empty
RECURSIVE FirstValue(_, _)
FirstValue(ls, prefix) ==
    IF ls = <<>> THEN <<>>
    ELSE IF StartsWith(Head(ls), prefix) THEN Strip(From2(Head(ls)))
    ELSE FirstValue(Tail(ls), prefix)

\* the value of the last line of ls that starts with the prefix, else empty
RECURSIVE LastValue(_, _)
LastValue(ls, prefix) ==
    IF ls = <<>> THEN <<>>
    ELSE IF StartsWith(ls[Len(ls)], prefix) THEN Strip(From2(ls[Len(ls)]))
    ELSE LastValue(SubSeq(ls, 1, Len(ls) - 1), prefix)

\* C8: the title is the value of the first line whose trimmed text starts
\* with T:, whatever that value is; later T: lines are ignored.
C8_FirstTitleWins ==
    TuneDone => tune_dict.title = FirstValue(Trimmed(lines), PT)

\* C9: type, meter and key are each the trimmed value of the last line whose
\* trimmed text starts with R:, M: or K:, and empty without such a line.
C9_LastValueWins ==
    TuneDone =>
        /\ tune_dict.type = LastValue(Trimmed(lines), PR)
        /\ tune_dict.meter = LastValue(Trimmed(lines), PM)
        /\ tune_dict.key = LastValue(Trimmed(lines), PK)

\* a chunk with two R: lines of different values
C9_Witness ==
    /\ TuneDone
    /\ lines = << <<"X", ":", "1">>, <<"R", ":", "a">>, <<"R", ":", "b", " ">> >>
    /\ tune_dict.type = <<"b">>
    /\ tune_dict.key = <<>>

Chars == {"X", "T", "R", "M", "K", ":", " ", NL, "a", "b", "1", "2"}

FieldNames == {"reference_number", "title", "type", "meter", "key", "abc_notation"}

Recognised(line) ==
    \E prefix \in {PX, PT, PR, PM, PK} : StartsWith(Strip(line), prefix)

\* C10: while parse_single_tune runs and when it returns the record has the
\* five fields as strings, its raw text is the chunk, and the lines that
\* match none of the five prefixes have changed nothing: the record is the
\* one the recognised lines read so far give.
C10_ExtractionTotal ==
    pc = "p_tune" =>
        /\ li \in 1..(Len(lines) + 1)
        /\ DOMAIN tune_dict = FieldNames
        /\ \A f \in FieldNames : tune_dict[f] \in Seq(Chars)
        /\ tune_dict.abc_notation = tune_sections[si]
        /\ tune_dict = ParseLines(NewTune(tune_sections[si]),
                                  SelectSeq(SubSeq(lines, 1, li - 1), Recognised))

\* a chunk whose only line after the X: line is free text
C10_Witness ==
    /\ TuneDone
    /\ lines = << <<"X", ":", "1">>, <<"a">> >>
    /\ tune_dict = [reference_number |-> <<"1">>, title |-> <<>>, type |-> <<>>,
                    meter |-> <<>>, key |-> <<>>,
                    abc_notation |-> <<"X", ":", "1", NL, "a">>]

----------------------------------------------------------------------------
(* Claims about find_abc_files (SpecLocate) *)

LocateEnded == pc \in {"l_return", "l_raised"}

Range(q) == { q[k] : k \in 1..Len(q) }

\* the name is a non-negative base-10 integer
DecimalName(name) ==
    name # <<>> /\ \A k \in 1..Len(name) : name[k] \in DecimalDigits

\* the entries of the root that are directories named by an integer
NumberedFolders == { k \in 1..Len(fs) : fs[k].is_dir /\ DecimalName(fs[k].name) }

\* the pairs of the regular files named *.abc directly inside the numbered
\* folders in K
AbcFilePairs(K) ==
    { <<ToInt(fs[k].name), JoinPath(fs[k].name, fs[k].entries[j].name)>> :
          <<k, j>> \in { x \in K \X (1..2) :
                           /\ x[2] <= Len(fs[x[1]].entries)
                           /\ ~fs[x[1]].entries[x[2]].is_dir
                           /\ EndsWithAbc(fs[x[1]].entries[x[2]].name) } }

AllListable == \A k \in NumberedFolders : fs[k].listable

\* C11: on a tree whose root and numbered folders can be listed,
\* find_abc_files returns, without raising, exactly the pairs
\* (int(folder name), path) of the files named *.abc directly inside a folder
\* named by a non-negative base-10 integer.
C11_ExactlyAbcFilesOfNumberedFolders ==
    (LocateEnded /\ root_listable /\ AllListable) =>
        /\ pc = "l_return"
        /\ Range(found) = AbcFilePairs(NumberedFolders)
        /\ Len(found) = Cardinality(Range(found))

\* no folder name passes isdigit() and fails int()
NoOddDigits == \A k \in 1..Len(fs) : IsDigit(fs[k].name) => DecimalName(fs[k].name)

Unreadable == { k \in NumberedFolders : ~fs[k].listable }

\* C12: when a numbered folder cannot be listed, find_abc_files returns the
\* pairs of the other folders and leaves out the files of that one.
C12_UnreadableFolderOmitted ==
    (LocateEnded /\ root_listable /\ NoOddDigits /\ Unreadable # {}) =>
        /\ pc = "l_return"
        /\ AbcFilePairs(NumberedFolders \ Unreadable) \subseteq Range(found)
        /\ \A q \in Range(found) : \A k \in Unreadable : q[2][1] # fs[k].name

\* C18 as stated: two pairs of the returned list that come from different
\* folders have different collection ids.
C18_FolderToIdInjective ==
    pc = "l_return" =>
        \A q, r \in Range(found) : q[2][1] # r[2][1] => q[1] # r[1]

\* the name without its leading zeros
RECURSIVE StripZeros(_)
StripZeros(name) ==
    IF Len(name) > 1 /\ Head(name) = "0" THEN StripZeros(Tail(name)) ELSE name

\* C18 amended: for folder names made of the digits 0-9, two pairs of the
\* returned list have the same collection id exactly when their folder names
\* are equal up to leading zeros; 1 and 01 both map to 1.
C18_SameIdIffSameNumber ==
    pc = "l_return" =>
        \A q, r \in Range(found) :
            q[1] = r[1] <=> StripZeros(q[2][1]) = StripZeros(r[2][1])

\* the folders 1 and 01 both gave a pair with collection id 1
C18_Witness ==
    /\ pc = "l_return"
    /\ \E q, r \in Range(found) :
           /\ q[2][1] = <<"1">>
           /\ r[2][1] = <<"0", "1">>
           /\ q[1] = 1
           /\ r[1] = 1

----------------------------------------------------------------------------
(* Further claims about load_all_tunes (Spec) *)

\* C13: when the listing of the root fails, the run leaves load_all_tunes by
\* that error at the Locator call: the loop is never entered, no file is
\* parsed, no insert is attempted and no row is stored.
C13_MissingRootAbortsBeforeFiles ==
    ~root_exists =>
        /\ pc \in {"connect", "schema", "find", "exit", "crashed"}
        /\ pc = "crashed" => conn = "open"
        /\ abc_files = <<>> /\ fi = 0
        /\ log = <<>> /\ history = <<>>
        /\ btunes = <<>> /\ attempts = <<>>
        /\ db = <<>> /\ pending = <<>>
        /\ total_tunes = 0 /\ files_processed = 0

\* the run was ended by the failure of the Locator although a file with two
\* tunes was waiting
C13_Witness ==
    /\ pc = "crashed"
    /\ ~root_exists
    /\ corpus # <<>>
    /\ Len(ParseOf(corpus[1])) = 2
    /\ db = <<>>

\* C15: a file that cannot be read is reported by the driver as an error, not
\* as a file without tunes.
C15_ReadFailureReportedAsError ==
    RunEnded =>
        \A i \in 1..Len(abc_files) :
            ~corpus[PathOf(i)].readable =>
                /\ i <= Len(log)
                /\ log[i].kind = "error"

\* C17: whenever load_all_tunes has ended after the connection was opened,
\* the connection is closed.
C17_ConnectionClosedAtEnd ==
    (pc \in {"exit", "done", "crashed"} /\ conn # "none") => conn = "closed"

----------------------------------------------------------------------------
(* Further claim about insert_tunes_batch (SpecBatch) *)

\* the rows of the records 1..k whose insert_tune returned True, in order
RECURSIVE RowsOfSucceeded(_)
RowsOfSucceeded(k) ==
    IF k = 0 THEN <<>>
    ELSE RowsOfSucceeded(k - 1)
             \o (IF attempts[k].result = "ok"
                 THEN <<Row(btunes[k], book_number, file_path)>>
                 ELSE <<>>)

\* C14: when insert_tunes_batch returns, the committed rows are exactly the
\* rows of the records for which insert_tune returned True, with the batch's
\* collection id and file path; a record reported as failed has no row.
C14_RowsAreTheSucceededRecords ==
    pc = "b_returned" => db = RowsOfSucceeded(Len(attempts))

----------------------------------------------------------------------------
(* Further claim about parse_single_tune (SpecParse) *)

\* C16 as stated: the reference number is the value of the marker line of the
\* chunk, the first line whose trimmed text starts with X:.
C16_ReferenceFromMarkerLine ==
    TuneDone => tune_dict.reference_number = FirstValue(Trimmed(lines), PX)

\* C16 amended: the reference number is the trimmed text after X: on the last
\* line of the chunk whose trimmed text starts with X:, which is the marker
\* line unless a later (indented) line starts with X: once trimmed.
C16_ReferenceFromLastXLine ==
    TuneDone => tune_dict.reference_number = LastValue(Trimmed(lines), PX)

\* a chunk whose marker line X:1 is followed by an indented X:2
C16_Witness ==
    /\ TuneDone
    /\ lines = << <<"X", ":", "1">>, <<" ", "X", ":", "2">> >>
    /\ tune_dict.reference_number = <<"2">>

====
